---- MODULE Spec2Model ----
(***************************************************************************)
(* The rating engine of Tiger (src/calculate_ratings.py): the game graph   *)
(* and its primary network, the randomized rating attempt, the parallel    *)
(* batch of attempts and their aggregation.                                *)
(*                                                                         *)
(* Numbers.  The program computes in IEEE doubles.  Here a finite double   *)
(* is an integer (fixed point), and the three non-finite doubles the       *)
(* program can produce are the values Inf, -Inf and NaN below.  A quotient *)
(* of finite values is rounded down to the fixed-point grid.  The random   *)
(* draws are taken from a grid on which the mean of a rating vector is     *)
(* representable, so that centring is exact.                               *)
(***************************************************************************)
EXTENDS Integers, Sequences, FiniteSets, TLC

VARIABLES
    config,                       \* the command line of main (lines 193-209)
    input_games,                  \* the played games that pass the filters
    all_team_list,                \* the teams, by all-team index (a count)
    main_pc,                      \* where main is
    game_network_groups,          \* connected components, in discovery order
    game_network_edge_centrality, \* per game: centrality of its edge, <<num, den>>
    teams_in_network,             \* sorted all-team indexes of the primary network
    network_game_id_list,         \* ids of the games inside the primary network
    network_stats,                \* score mean, margin deviation, adjustment scale
    att,                          \* per run: the locals of rating_attempt
    evaluated,                    \* per run: summary of the states evaluated so far
    rng_tape,                     \* per seed: generator output not yet read by every run
    rng_lag,                      \* per run: how many entries of its tape it has yet to read
    aggregate,                    \* the aggregator's output (lines 462-476)
    argv,                         \* sys.argv, the arguments main converts
    stdout,                       \* the lines main has printed
    calibration,                  \* the prediction errors and their fit (lines 479-526)
    tie_search,                   \* the locals of the tie-bound search (lines 529-564)
    output_data,                  \* the dictionary main builds (lines 567-750)
    output_file,                  \* the documents written to the output file
    data_keys                     \* the optional keys the records of the input file carry

vars == <<config, input_games, all_team_list, main_pc, game_network_groups,
          game_network_edge_centrality, teams_in_network, network_game_id_list,
          network_stats, att, evaluated, rng_tape, rng_lag, aggregate, argv, stdout,
          calibration, tie_search, output_data, output_file, data_keys>>

inputs == <<config, input_games, all_team_list, argv, data_keys>>
report == <<calibration, tie_search, output_data, output_file>>
graph == <<game_network_groups, game_network_edge_centrality, teams_in_network,
           network_game_id_list, network_stats>>

-----------------------------------------------------------------------------
(* Doubles *)

Inf == 1000000
NaN == 2000000
None == 3000000

IsFinite(x) == x # NaN /\ x # Inf /\ x # -Inf

Sign(x) == IF x > 0 THEN 1 ELSE IF x < 0 THEN -1 ELSE 0

FNeg(x) == IF x = NaN THEN NaN ELSE -x

FAdd(a, b) ==
    IF a = NaN \/ b = NaN THEN NaN
    ELSE IF a = Inf THEN (IF b = -Inf THEN NaN ELSE Inf)
    ELSE IF a = -Inf THEN (IF b = Inf THEN NaN ELSE -Inf)
    ELSE IF b = Inf \/ b = -Inf THEN b
    ELSE a + b

FSub(a, b) == FAdd(a, FNeg(b))

FMul(a, b) ==
    IF a = NaN \/ b = NaN THEN NaN
    ELSE IF IsFinite(a) /\ IsFinite(b) THEN a * b
    ELSE IF a = 0 \/ b = 0 THEN NaN
    ELSE Sign(a) * Sign(b) * Inf

\* numpy.float64 division: no exception, x/0 is +-inf and 0/0 is nan.
FDiv(a, b) ==
    IF a = NaN \/ b = NaN THEN NaN
    ELSE IF b = 0 THEN (IF a = 0 THEN NaN ELSE Sign(a) * Inf)
    ELSE IF ~IsFinite(a) THEN (IF ~IsFinite(b) THEN NaN ELSE Sign(a) * Sign(b) * Inf)
    ELSE IF ~IsFinite(b) THEN 0
    ELSE IF b > 0 THEN a \div b
    ELSE (-a) \div (-b)

FAbs(x) == IF x = NaN THEN NaN ELSE IF x < 0 THEN -x ELSE x

\* a < b on doubles: false when either side is nan.
FLess(a, b) == a # NaN /\ b # NaN /\ a < b

\* Python's max(a, b): b only if b > a, so a nan first argument is returned.
FMax(a, b) == IF FLess(a, b) THEN b ELSE a

RECURSIVE FSum(_)
FSum(s) == IF s = <<>> THEN 0 ELSE FAdd(Head(s), FSum(Tail(s)))

\* numpy.mean
FMean(s) == FDiv(FSum(s), Len(s))

RECURSIVE ISqrtFrom(_, _)
ISqrtFrom(x, r) == IF (r + 1) * (r + 1) > x THEN r ELSE ISqrtFrom(x, r + 1)

FSqrt(x) == IF x = NaN THEN NaN ELSE ISqrtFrom(x, 0)

-----------------------------------------------------------------------------
(* Sets and sequences *)

Min(S) == CHOOSE x \in S : \A y \in S : x <= y
Max(S) == CHOOSE x \in S : \A y \in S : y <= x

RECURSIVE SortedSeq(_)
SortedSeq(S) == IF S = {} THEN <<>> ELSE <<Min(S)>> \o SortedSeq(S \ {Min(S)})

\* list.index
IndexOf(s, x) == CHOOSE i \in 1..Len(s) : s[i] = x

RECURSIVE GCD(_, _)
GCD(a, b) == IF b = 0 THEN a ELSE GCD(b, a % b)

-----------------------------------------------------------------------------
(* The game graph (lines 413-433) *)

Nodes == 0..(all_team_list - 1)

\* G[v] of the multigraph: the teams v has played, parallel edges merged.
Neighbors(v) ==
    {w \in Nodes : \E i \in 1..Len(input_games) :
        {input_games[i].home, input_games[i].away} = {v, w} /\ v # w}

\* number of games between u and v (the keys of the edge bundle)
Multiplicity(u, v) ==
    Cardinality({i \in 1..Len(input_games) :
        {input_games[i].home, input_games[i].away} = {u, v}})

\* breadth-first layers from s: <<{s}, distance 1, distance 2, ...>>
RECURSIVE BfsLayers(_, _)
BfsLayers(layers, seen) ==
    LET frontier == layers[Len(layers)]
        next == UNION {Neighbors(v) : v \in frontier} \ seen
    IN IF next = {} THEN layers ELSE BfsLayers(Append(layers, next), seen \cup next)

Layers(s) == BfsLayers(<<{s}>>, {s})

PlainBfs(s) == UNION {Layers(s)[k] : k \in 1..Len(Layers(s))}

\* networkx.connected_components: for v in G, if v is unseen, yield its component.
RECURSIVE ComponentsFrom(_, _)
ComponentsFrom(v, seen) ==
    IF v >= all_team_list THEN <<>>
    ELSE IF v \in seen THEN ComponentsFrom(v + 1, seen)
    ELSE <<PlainBfs(v)>> \o ComponentsFrom(v + 1, seen \cup PlainBfs(v))

ConnectedComponents == ComponentsFrom(0, {})

\* distance from s to t, -1 when t is unreachable
Dist(s, t) ==
    LET L == Layers(s)
    IN IF \E k \in 1..Len(L) : t \in L[k]
       THEN (CHOOSE k \in 1..Len(L) : t \in L[k]) - 1
       ELSE -1

\* number of shortest paths from s to t in the merged graph
RECURSIVE Sigma(_, _)
Sigma(s, t) ==
    IF s = t THEN 1
    ELSE LET d == Dist(s, t)
             preds == {w \in Neighbors(t) : Dist(s, w) = d - 1}
             seq == SortedSeq(preds)
         IN FSum([k \in 1..Len(seq) |-> Sigma(s, seq[k])])

\* shortest s-t paths that use the edge u-v
SigmaThrough(s, t, u, v) ==
    (IF Dist(s, u) >= 0 /\ Dist(v, t) >= 0 /\ Dist(s, u) + 1 + Dist(v, t) = Dist(s, t)
     THEN Sigma(s, u) * Sigma(v, t) ELSE 0)
    + (IF Dist(s, v) >= 0 /\ Dist(u, t) >= 0 /\ Dist(s, v) + 1 + Dist(u, t) = Dist(s, t)
       THEN Sigma(s, v) * Sigma(u, t) ELSE 0)

RatNorm(r) == LET g == GCD(r[1], r[2]) IN IF g = 0 THEN r ELSE <<r[1] \div g, r[2] \div g>>
RatAdd(p, q) == RatNorm(<<p[1] * q[2] + q[1] * p[2], p[2] * q[2]>>)

RECURSIVE RatSum(_)
RatSum(s) == IF s = <<>> THEN <<0, 1>> ELSE RatAdd(Head(s), RatSum(Tail(s)))

\* networkx.edge_betweenness_centrality (normalized) of the key-0 edge of u-v:
\* the share of shortest paths over ordered pairs, scaled by 1/(n(n-1)), and
\* divided among the parallel edges of the bundle.
EdgeBetweenness(u, v) ==
    LET pairs == {p \in Nodes \X Nodes : p[1] # p[2] /\ Dist(p[1], p[2]) > 0}
        ps == SortedSeq({p[1] * all_team_list + p[2] : p \in pairs})
        frac(c) == LET s == c \div all_team_list
                       t == c % all_team_list
                   IN <<SigmaThrough(s, t, u, v), Sigma(s, t)>>
        total == RatSum([k \in 1..Len(ps) |-> frac(ps[k])])
    IN RatNorm(<<total[1],
                 total[2] * all_team_list * (all_team_list - 1) * Multiplicity(u, v)>>)

GameCentrality(i) ==
    EdgeBetweenness(Min({input_games[i].home, input_games[i].away}),
                    Max({input_games[i].home, input_games[i].away}))

-----------------------------------------------------------------------------
(* Statistics of the network's games (lines 436-446) *)

One == 2

rating_adjustment_scale_baseline == 20
rating_adjustment_scale_factor == 27
rating_adjustment_scale_cap == 100

NetworkGame(k) == input_games[network_game_id_list[k]]
NetworkGames == [k \in 1..Len(network_game_id_list) |-> NetworkGame(k)]

Margin(g) == g.home_score - g.away_score

\* numpy.std of the margins and their negatives: the root of the mean square
NetworkGameMarginStdev ==
    FSqrt(FMean([k \in 1..Len(NetworkGames) |-> Margin(NetworkGames[k]) * Margin(NetworkGames[k])]))

NetworkGameScoreMean ==
    FMean([k \in 1..Len(NetworkGames) |-> NetworkGames[k].home_score]
          \o [k \in 1..Len(NetworkGames) |-> NetworkGames[k].away_score])

RatingAdjustmentScale ==
    LET scale == FMul(rating_adjustment_scale_baseline,
                      FDiv(rating_adjustment_scale_factor, NetworkGameMarginStdev))
    IN IF FLess(rating_adjustment_scale_cap, scale) THEN rating_adjustment_scale_cap ELSE scale

\* the values main passes to every attempt (line 460)
network_game_score_mean == network_stats.network_game_score_mean
network_game_margin_stdev == network_stats.network_game_margin_stdev
rating_adjustment_scale == network_stats.rating_adjustment_scale

-----------------------------------------------------------------------------
(* rating_attempt: the weight of a game (lines 79-96) *)

\* id_to_index: a team's place among the network's teams (1-based here)
IdToIndex(team) == IndexOf(teams_in_network, team)

\* the weights of the prior seasons are not looked at
PolicyWeightOfRatedSeason(g) ==
    IF config.use_preseason_var /\ g.is_preseason THEN config.preseason_weight ELSE One

\* lines 81-94
PolicyWeight(g) ==
    IF g.season = config.season_to_rank
    THEN (IF config.use_preseason_var /\ g.is_preseason
          THEN config.preseason_weight ELSE One)
    ELSE IF g.season < config.season_to_rank
    THEN (IF config.use_preseason_var /\ g.is_preseason
          THEN config.prior_preseason_weight ELSE config.prior_season_weight)
    ELSE 0

\* cur_game_weight / log(1 / centrality), with log(x) taken as 2(x-1)/(x+1),
\* the first term of its series: zero exactly when the centrality is 1.
GtWeight(k) ==
    LET c == game_network_edge_centrality[network_game_id_list[k]]
    IN FDiv(PolicyWeight(NetworkGame(k)) * (c[2] + c[1]), 2 * (c[2] - c[1]))

\* gt_game_weight_list (line 113)
GtGameWeightList == [k \in 1..Len(network_game_id_list) |-> GtWeight(k)]

\* the games team t (a network index) plays at home, and away
HomeGames(t) == {k \in 1..Len(network_game_id_list) : IdToIndex(NetworkGame(k).home) = t}
AwayGames(t) == {k \in 1..Len(network_game_id_list) : IdToIndex(NetworkGame(k).away) = t}

NotNeutralGames == {k \in 1..Len(network_game_id_list) : ~NetworkGame(k).is_neutral_site}

\* sum of f over the games: FSum of f[k] for k in S, 0 for the others
SumOver(S, f) == FSum([k \in 1..Len(network_game_id_list) |-> IF k \in S THEN f[k] ELSE 0])

\* total_team_weight, filled on the first iteration (lines 105-107)
TotalTeamWeight(w) ==
    [t \in 1..Len(teams_in_network) |-> FAdd(SumOver(HomeGames(t), w), SumOver(AwayGames(t), w))]

\* total_notneutral_weight (lines 108-109)
TotalNotNeutralWeight(w) == SumOver(NotNeutralGames, w)

-----------------------------------------------------------------------------
(* rating_attempt: predictions and the error of a rating state (lines 97-131) *)

HomeEdge(g, ha) == FDiv(FMul(IF g.is_neutral_site THEN 0 ELSE 1, ha), 2)

\* line 99
PredictedOffScore(g, off, def, ha) ==
    FMax(FAdd(FSub(FAdd(off[IdToIndex(g.home)], HomeEdge(g, ha)), def[IdToIndex(g.away)]),
              network_game_score_mean), 0)

\* line 100
PredictedDefScore(g, off, def, ha) ==
    FMax(FAdd(FSub(FSub(off[IdToIndex(g.away)], HomeEdge(g, ha)), def[IdToIndex(g.home)]),
              network_game_score_mean), 0)

\* lines 99-101, for every game of the network
Predictions(off, def, ha) ==
    [k \in 1..Len(network_game_id_list) |->
        LET o == PredictedOffScore(NetworkGame(k), off, def, ha)
            d == PredictedDefScore(NetworkGame(k), off, def, ha)
        IN [off_score |-> o, def_score |-> d, margin |-> FSub(o, d)]]

\* lines 116, 119, 120, each times the weight of the game
OffMarginErrorWeight(w, p) ==
    [k \in 1..Len(p) |-> FMul(FSub(NetworkGame(k).home_score, p[k].off_score), w[k])]
DefMarginErrorWeight(w, p) ==
    [k \in 1..Len(p) |-> FMul(FSub(NetworkGame(k).away_score, p[k].def_score), w[k])]
MarginErrorWeight(w, p) ==
    [k \in 1..Len(p) |-> FMul(FSub(Margin(NetworkGame(k)), p[k].margin), w[k])]

\* total_team_off_margin_error_weight (lines 121, 123)
TotalTeamOffMarginErrorWeight(w, p) ==
    [t \in 1..Len(teams_in_network) |->
        FAdd(SumOver(HomeGames(t), OffMarginErrorWeight(w, p)),
             SumOver(AwayGames(t), DefMarginErrorWeight(w, p)))]

\* total_team_def_margin_error_weight (lines 122, 124)
TotalTeamDefMarginErrorWeight(w, p) ==
    [t \in 1..Len(teams_in_network) |->
        FNeg(FAdd(SumOver(HomeGames(t), DefMarginErrorWeight(w, p)),
                  SumOver(AwayGames(t), OffMarginErrorWeight(w, p))))]

\* total_home_margin_error_weight (lines 126-127)
TotalHomeMarginErrorWeight(w, p) == SumOver(NotNeutralGames, MarginErrorWeight(w, p))

\* scipy.stats.norm.cdf(x, loc, scale) in units of 1/(4 scale): increasing in x,
\* one half at loc, constant in both tails; nan for a nan argument or scale <= 0.
NormCdf(x, loc, scale) ==
    IF x = NaN \/ loc = NaN \/ scale = NaN \/ scale <= 0 THEN NaN
    ELSE IF x = Inf THEN 4 * scale
    ELSE IF x = -Inf THEN 0
    ELSE IF x - loc > 2 * scale THEN 4 * scale
    ELSE IF x - loc < -(2 * scale) THEN 0
    ELSE x - loc + 2 * scale

CdfGap(actual, predicted, loc) ==
    FAbs(FSub(NormCdf(actual, loc, network_game_margin_stdev),
              NormCdf(predicted, loc, network_game_margin_stdev)))

\* abs_total_error (lines 129-131)
AbsTotalErrorOf(w, p) ==
    FAdd(FSum([k \in 1..Len(p) |->
            FMul(w[k], CdfGap(Margin(NetworkGame(k)), p[k].margin, 0))]),
         FAdd(FSum([k \in 1..Len(p) |->
                FMul(w[k], CdfGap(NetworkGame(k).home_score, p[k].off_score,
                                  network_game_score_mean))]),
              FSum([k \in 1..Len(p) |->
                FMul(w[k], CdfGap(NetworkGame(k).away_score, p[k].def_score,
                                  network_game_score_mean))])))

\* the error of a rating state
AbsTotalError(state) ==
    AbsTotalErrorOf(GtGameWeightList, Predictions(state.off, state.def, state.home_advantage))

-----------------------------------------------------------------------------
(* rating_attempt: the state of one run and the steps of its loop *)

Runs == DOMAIN att

Zeros == [t \in 1..Len(teams_in_network) |-> 0]

\* numpy.add of two rating lists (lines 35, 45, 169)
AddRatings(off, def) == [t \in 1..Len(off) |-> FAdd(off[t], def[t])]

\* lines 29-47: the locals when the loop is first entered
InitAttempt(attempt) ==
    [attempt |-> attempt,
     pc |-> "evaluate",
     best_team_off_ratings |-> Zeros,
     best_team_def_ratings |-> Zeros,
     best_team_ratings |-> AddRatings(Zeros, Zeros),
     best_home_advantage |-> 0,
     best_abs_total_error |-> None,
     terminate_search |-> FALSE,
     first_iteration |-> TRUE,
     cur_team_off_ratings |-> Zeros,
     cur_team_def_ratings |-> Zeros,
     cur_team_ratings |-> AddRatings(Zeros, Zeros),
     cur_home_advantage |-> 0,
     iterations_since_last_update |-> 0,
     total_team_weight |-> None,
     total_notneutral_weight |-> None,
     gt_game_weight_list |-> None,
     total_team_off_margin_error_weight |-> Zeros,
     total_team_def_margin_error_weight |-> Zeros,
     total_home_margin_error_weight |-> 0]

\* the rating state a run currently holds, and the one it has saved
CurState(a) ==
    [off |-> a.cur_team_off_ratings, def |-> a.cur_team_def_ratings,
     overall |-> a.cur_team_ratings, home_advantage |-> a.cur_home_advantage]
BestState(a) ==
    [off |-> a.best_team_off_ratings, def |-> a.best_team_def_ratings,
     overall |-> a.best_team_ratings, home_advantage |-> a.best_home_advantage]

\* every iteration is taken for the best one
UpdateBestStatsAlways(a, abs_total_error) == TRUE

\* lines 133-139
UpdateBestStats(a, abs_total_error) ==
    a.first_iteration \/ FLess(abs_total_error, a.best_abs_total_error)

\* the overall ratings are left out of the copy
StoreBestWithoutOverall(a, abs_total_error) ==
    [a EXCEPT !.best_team_off_ratings = a.cur_team_off_ratings,
              !.best_team_def_ratings = a.cur_team_def_ratings,
              !.best_home_advantage = a.cur_home_advantage,
              !.best_abs_total_error = abs_total_error,
              !.iterations_since_last_update = 0]

\* lines 142-147
StoreBest(a, abs_total_error) ==
    [a EXCEPT !.best_team_off_ratings = a.cur_team_off_ratings,
              !.best_team_def_ratings = a.cur_team_def_ratings,
              !.best_team_ratings = a.cur_team_ratings,
              !.best_home_advantage = a.cur_home_advantage,
              !.best_abs_total_error = abs_total_error,
              !.iterations_since_last_update = 0]

\* line 152
ResetDue(iterations_since_last_update) ==
    iterations_since_last_update % config.iterations_before_reset = 0

\* the home advantage is left out of the reset
ResetRatingsOnly(a) ==
    [a EXCEPT !.cur_team_off_ratings = a.best_team_off_ratings,
              !.cur_team_def_ratings = a.best_team_def_ratings,
              !.cur_team_ratings = a.best_team_ratings]

\* lines 153-156
ResetToBest(a) ==
    [a EXCEPT !.cur_team_off_ratings = a.best_team_off_ratings,
              !.cur_team_def_ratings = a.best_team_def_ratings,
              !.cur_team_ratings = a.best_team_ratings,
              !.cur_home_advantage = a.best_home_advantage]

\* lines 150-156
CountAndReset(a) ==
    LET b == [a EXCEPT !.iterations_since_last_update = @ + 1]
    IN IF ResetDue(b.iterations_since_last_update) THEN ResetToBest(b) ELSE b

\* lines 59-66 and 105-113: what the first iteration stores for the later ones
FirstIterationTotals(a) ==
    IF a.first_iteration
    THEN [a EXCEPT !.gt_game_weight_list = GtGameWeightList,
                   !.total_team_weight = TotalTeamWeight(GtGameWeightList),
                   !.total_notneutral_weight = TotalNotNeutralWeight(GtGameWeightList)]
    ELSE a

\* lines 51-131: one pass over the games
GamesPass(a) ==
    LET w == GtGameWeightList
        p == Predictions(a.cur_team_off_ratings, a.cur_team_def_ratings, a.cur_home_advantage)
    IN [FirstIterationTotals(a) EXCEPT
            !.total_team_off_margin_error_weight = TotalTeamOffMarginErrorWeight(w, p),
            !.total_team_def_margin_error_weight = TotalTeamDefMarginErrorWeight(w, p),
            !.total_home_margin_error_weight = TotalHomeMarginErrorWeight(w, p)]

\* lines 51-156: the pass over the games, the error, and the bookkeeping
Evaluated(a) ==
    LET b == [GamesPass(a) EXCEPT !.pc = "update"]
        abs_total_error ==
            AbsTotalErrorOf(b.gt_game_weight_list,
                            Predictions(a.cur_team_off_ratings, a.cur_team_def_ratings,
                                        a.cur_home_advantage))
    IN IF UpdateBestStats(b, abs_total_error) THEN StoreBest(b, abs_total_error)
       ELSE CountAndReset(b)

\* line 158
ContinueSearch(a) == a.iterations_since_last_update < config.iterations_before_stop

\* lines 166-167: subtract the mean
Centre(v) == [t \in 1..Len(v) |-> FSub(v[t], FMean(v))]

\* The means of the draws (lines 161, 162, 164)
OffLoc(a, t) ==
    FDiv(FDiv(a.total_team_off_margin_error_weight[t], a.total_team_weight[t]),
         rating_adjustment_scale)
DefLoc(a, t) ==
    FDiv(FDiv(a.total_team_def_margin_error_weight[t], a.total_team_weight[t]),
         rating_adjustment_scale)
HomeLoc(a) ==
    FDiv(FDiv(a.total_home_margin_error_weight, a.total_notneutral_weight),
         rating_adjustment_scale)

\* Line 164 divides two Python ints when no game of the network is played at a
\* non-neutral site (lines 51, 61: both totals are still the int 0): that raises
\* ZeroDivisionError.
HomeLocRaises == NotNeutralGames = {}

\* update_rng.normal(loc, 1/scale) is loc + variate/scale.  A normal draw has
\* full support: for a finite loc the variate stands for the value drawn, a
\* point of the grid; a non-finite loc is returned as it is.
Normal(loc, variate) == IF IsFinite(loc) THEN variate ELSE loc

DrawStep == 2 * Len(teams_in_network)
Variates == {-DrawStep, DrawStep}

\* what the generator yields in one update: a variate per draw, in draw order
VariateVectors ==
    [off : [1..Len(teams_in_network) -> Variates],
     def : [1..Len(teams_in_network) -> Variates],
     home_advantage : Variates]

\* the update writes the drawn ratings through to the saved best lists
UpdateRatingsThroughBest(a, z) ==
    LET off == [t \in 1..Len(teams_in_network) |->
                    FAdd(a.cur_team_off_ratings[t], Normal(OffLoc(a, t), z.off[t]))]
        def == [t \in 1..Len(teams_in_network) |->
                    FAdd(a.cur_team_def_ratings[t], Normal(DefLoc(a, t), z.def[t]))]
        ha == FAdd(a.cur_home_advantage, Normal(HomeLoc(a), z.home_advantage))
    IN [a EXCEPT !.cur_team_off_ratings = Centre(off),
                 !.cur_team_def_ratings = Centre(def),
                 !.cur_team_ratings = AddRatings(Centre(off), Centre(def)),
                 !.cur_home_advantage = ha,
                 !.best_team_off_ratings = off,
                 !.best_team_def_ratings = def,
                 !.first_iteration = FALSE,
                 !.pc = "evaluate"]

\* lines 160-169
UpdateRatings(a, z) ==
    LET off == [t \in 1..Len(teams_in_network) |->
                    FAdd(a.cur_team_off_ratings[t], Normal(OffLoc(a, t), z.off[t]))]
        def == [t \in 1..Len(teams_in_network) |->
                    FAdd(a.cur_team_def_ratings[t], Normal(DefLoc(a, t), z.def[t]))]
        ha == FAdd(a.cur_home_advantage, Normal(HomeLoc(a), z.home_advantage))
    IN [a EXCEPT !.cur_team_off_ratings = Centre(off),
                 !.cur_team_def_ratings = Centre(def),
                 !.cur_team_ratings = AddRatings(Centre(off), Centre(def)),
                 !.cur_home_advantage = ha,
                 !.first_iteration = FALSE,
                 !.pc = "evaluate"]

\* the final current state is returned
AttemptResultCurrent(a) ==
    <<a.cur_team_off_ratings, a.cur_team_def_ratings, a.cur_team_ratings,
      a.cur_home_advantage>>

\* line 176
AttemptResult(a) ==
    <<a.best_team_off_ratings, a.best_team_def_ratings, a.best_team_ratings,
      a.best_home_advantage>>

\* lines 171-174: the loop ends
Stopped(a) ==
    [a EXCEPT !.terminate_search = TRUE, !.first_iteration = FALSE, !.pc = "returned"]

\* line 164 raises: the call ends with the exception
Raised(a) == [a EXCEPT !.pc = "raised"]

\* one step of rating_attempt from the locals a: all it may lead to, given the
\* arguments of the call and what the generator may yield
StepsAlone(a) ==
    IF a.pc = "evaluate" THEN {Evaluated(a)}
    ELSE IF a.pc # "update" THEN {}
    ELSE IF ~ContinueSearch(a) THEN {Stopped(a)}
    ELSE IF HomeLocRaises THEN {Raised(a)}
    ELSE {UpdateRatings(a, z) : z \in VariateVectors}

-----
(* The generator of a run: numpy.random.default_rng(seed = [attempt]), line 30 *)

\* A generator's output is a function of its seed.  rng_tape[seed] holds the
\* part of that output which some run with this seed has read and another,
\* still running, has not; rng_lag[r] is how much of it run r has yet to read.
Running(r) == att[r].pc \in {"idle", "evaluate", "update"}

SameSeed(r) == {q \in Runs \ {r} : att[q].attempt = att[r].attempt /\ Running(q)}

MaxLead == 1

\* the generator is not seeded: every read is a fresh draw
NextVariatesUnseeded(r) == VariateVectors

\* the variates run r may read next
NextVariates(r) ==
    IF rng_lag[r] > 0
    THEN {rng_tape[att[r].attempt][Len(rng_tape[att[r].attempt]) - rng_lag[r] + 1]}
    ELSE IF \A q \in SameSeed(r) : rng_lag[q] < MaxLead THEN VariateVectors ELSE {}

LagAfterRead(r) ==
    [q \in Runs |->
        IF q = r THEN (IF rng_lag[r] > 0 THEN rng_lag[r] - 1 ELSE 0)
        ELSE IF q \in SameSeed(r) /\ rng_lag[r] = 0 THEN rng_lag[q] + 1
        ELSE rng_lag[q]]

TapeAfterRead(r, z) ==
    LET seed == att[r].attempt
        grown == IF rng_lag[r] > 0 THEN rng_tape[seed] ELSE Append(rng_tape[seed], z)
        keep == Max({0} \cup {LagAfterRead(r)[q] : q \in SameSeed(r) \cup {r}})
    IN [rng_tape EXCEPT ![seed] = SubSeq(grown, Len(grown) - keep + 1, Len(grown))]

-----------------------------------------------------------------------------
(* The steps of a run *)

\* the states evaluated so far: the least error, and the first state to reach it
NoteEvaluated(e, a) ==
    LET abs_total_error == AbsTotalError(CurState(a))
    IN IF ~e.seen \/ FLess(abs_total_error, e.min_error)
       THEN [seen |-> TRUE, min_error |-> abs_total_error, first_min |-> CurState(a)]
       ELSE e

\* the best state is kept in one place for all runs
EvaluateSharedBest(r) ==
    /\ main_pc = "attempts"
    /\ att[r].pc = "evaluate"
    /\ att' = [q \in Runs |->
                 IF q = r THEN Evaluated(att[r])
                 ELSE [att[q] EXCEPT
                          !.best_team_off_ratings = Evaluated(att[r]).best_team_off_ratings,
                          !.best_team_def_ratings = Evaluated(att[r]).best_team_def_ratings,
                          !.best_team_ratings = Evaluated(att[r]).best_team_ratings,
                          !.best_home_advantage = Evaluated(att[r]).best_home_advantage,
                          !.best_abs_total_error = Evaluated(att[r]).best_abs_total_error]]
    /\ evaluated' = [evaluated EXCEPT ![r] = NoteEvaluated(evaluated[r], att[r])]
    /\ UNCHANGED <<inputs, stdout, report, graph, main_pc, rng_tape, rng_lag, aggregate>>

\* lines 50-156
Evaluate(r) ==
    /\ main_pc = "attempts"
    /\ att[r].pc = "evaluate"
    /\ att' = [att EXCEPT ![r] = Evaluated(att[r])]
    /\ evaluated' = [evaluated EXCEPT ![r] = NoteEvaluated(evaluated[r], att[r])]
    /\ UNCHANGED <<inputs, stdout, report, graph, main_pc, rng_tape, rng_lag, aggregate>>

\* lines 158-169 and 174: the ratings are updated
Update(r) ==
    /\ main_pc = "attempts"
    /\ att[r].pc = "update"
    /\ ContinueSearch(att[r])
    /\ ~HomeLocRaises
    /\ \E z \in NextVariates(r) :
        /\ att' = [att EXCEPT ![r] = UpdateRatings(att[r], z)]
        /\ rng_tape' = TapeAfterRead(r, z)
        /\ rng_lag' = LagAfterRead(r)
    /\ UNCHANGED <<inputs, stdout, report, graph, main_pc, evaluated, aggregate>>

\* lines 158-164: the update raises ZeroDivisionError
Raise(r) ==
    /\ main_pc = "attempts"
    /\ att[r].pc = "update"
    /\ ContinueSearch(att[r])
    /\ HomeLocRaises
    /\ att' = [att EXCEPT ![r] = Raised(att[r])]
    /\ rng_lag' = [rng_lag EXCEPT ![r] = 0]
    /\ UNCHANGED <<inputs, stdout, report, graph, main_pc, evaluated, rng_tape, aggregate>>

\* lines 171-176: the loop ends and the best state is returned
Terminate(r) ==
    /\ main_pc = "attempts"
    /\ att[r].pc = "update"
    /\ ~ContinueSearch(att[r])
    /\ att' = [att EXCEPT ![r] = Stopped(att[r])]
    /\ rng_lag' = [rng_lag EXCEPT ![r] = 0]
    /\ UNCHANGED <<inputs, stdout, report, graph, main_pc, evaluated, rng_tape, aggregate>>

-----------------------------------------------------------------------------
(* main *)

\* a printed line; team is the all-team index the line names, None if it names none
Line(text, team) == [text |-> text, team |-> team]

\* lines 421-423: one line for every team of every component after the first
RECURSIVE UnconnectedTeamLines(_, _)
UnconnectedTeamLines(groups, x) ==
    IF x > Len(groups) THEN <<>>
    ELSE [k \in 1..Cardinality(groups[x]) |-> Line("team", SortedSeq(groups[x])[k])]
         \o UnconnectedTeamLines(groups, x + 1)

\* only the two fixed lines are printed
UnconnectedReportWithoutTeams(groups) ==
    IF Len(groups) > 1
    THEN <<Line("Unconnected teams in the primary network:", None),
           Line("Proceeding with the largest network", None)>>
    ELSE <<>>

\* lines 419-424
UnconnectedReport(groups) ==
    IF Len(groups) > 1
    THEN <<Line("Unconnected teams in the primary network:", None)>>
         \o UnconnectedTeamLines(groups, 2)
         \o <<Line("Proceeding with the largest network", None)>>
    ELSE <<>>

\* a command-line argument: numeric tells whether int() or float() converts it,
\* value is the number it converts to
Arg(numeric, value) == [numeric |-> numeric, value |-> value]

\* probabilities are counted in units of 1/ProbDen
ProbDen == 100

\* tie bounds are counted in units of 1/BoundDen of a rating unit
BoundDen == 4

\* the search interval of the tie bound, in those units
TieStep == 4

\* numpy.clip(x, 0, 1) of a weight (lines 199-201)
Clip(x) == IF x < 0 THEN 0 ELSE IF x > One THEN One ELSE x

\* the arguments that convert to a configuration
ArgvOf(c) ==
    [season_to_rank |-> Arg(TRUE, c.season_to_rank),
     preseason_weight |-> Arg(TRUE, c.preseason_weight),
     prior_season_weight |-> Arg(TRUE, c.prior_season_weight),
     prior_preseason_weight |-> Arg(TRUE, c.prior_preseason_weight),
     tie_probability |-> Arg(TRUE, ProbDen \div 2),
     tie_cdf_search_interval |-> Arg(TRUE, TieStep)]

\* lines 196-209: one of the conversions raises
ConversionRaises(a) ==
    \E name \in DOMAIN a : ~a[name].numeric

\* lines 179-182, 196-209 and 240: the values main works with; the weights are
\* clipped, the tie probability and its search interval are taken as they are;
\* the search stops after one iteration without improvement
ParsedConfig(a) ==
    [season_to_rank |-> a.season_to_rank.value,
     preseason_weight |-> Clip(a.preseason_weight.value),
     prior_season_weight |-> Clip(a.prior_season_weight.value),
     prior_preseason_weight |-> Clip(a.prior_preseason_weight.value),
     use_preseason_var |-> FALSE,
     iterations_before_reset |-> 1,
     iterations_before_stop |-> 1,
     tie_probability |-> a.tie_probability.value,
     tie_cdf_search_interval |-> a.tie_cdf_search_interval.value]

\* the configuration before the arguments are converted
NoConfig ==
    [season_to_rank |-> None, preseason_weight |-> None, prior_season_weight |-> None,
     prior_preseason_weight |-> None, use_preseason_var |-> FALSE,
     iterations_before_reset |-> None, iterations_before_stop |-> None,
     tie_probability |-> None, tie_cdf_search_interval |-> None]

\* lines 195-212: the arguments are converted, or main prints an error and exits
ParseArguments ==
    /\ main_pc = "start"
    /\ IF ConversionRaises(argv)
       THEN /\ stdout' = Append(stdout, Line("Error in seasons, weights, dates, or probabilities; please check for correctness", None))
            /\ main_pc' = "exited"
            /\ UNCHANGED config
       ELSE /\ config' = ParsedConfig(argv)
            /\ main_pc' = "load"
            /\ UNCHANGED stdout
    /\ UNCHANGED <<input_games, all_team_list, argv, data_keys, report, graph, att,
                   evaluated, rng_tape, rng_lag, aggregate>>

\* lines 226-411: the input file is loaded.  use_preseason_var is assigned only
\* when some record carries the key IsPreseason (lines 239-240); line 256 reads
\* it either way, and reading the unassigned local raises UnboundLocalError.
LoadInput ==
    /\ main_pc = "load"
    /\ IF "IsPreseason" \in data_keys
       THEN /\ config' = [config EXCEPT !.use_preseason_var = TRUE]
            /\ main_pc' = "graph"
       ELSE /\ main_pc' = "load_raised"
            /\ UNCHANGED config
    /\ UNCHANGED <<input_games, all_team_list, argv, data_keys, stdout, report, graph,
                   att, evaluated, rng_tape, rng_lag, aggregate>>

\* lines 413-433
BuildGraph ==
    /\ main_pc = "graph"
    /\ stdout' = stdout \o UnconnectedReport(ConnectedComponents)
    /\ game_network_groups' = ConnectedComponents
    /\ game_network_edge_centrality' = [i \in 1..Len(input_games) |-> GameCentrality(i)]
    /\ teams_in_network' = SortedSeq(ConnectedComponents[1])
    /\ network_game_id_list' =
          LET ids == {i \in 1..Len(input_games) :
                        /\ input_games[i].home \in ConnectedComponents[1]
                        /\ input_games[i].away \in ConnectedComponents[1]}
          IN SortedSeq(ids)
    /\ main_pc' = "statistics"
    /\ UNCHANGED <<inputs, report, network_stats, att, evaluated, rng_tape, rng_lag, aggregate>>

\* lines 436-446
NetworkStatistics ==
    /\ main_pc = "statistics"
    /\ network_stats' = [network_game_score_mean |-> NetworkGameScoreMean,
                         network_game_margin_stdev |-> NetworkGameMarginStdev,
                         rating_adjustment_scale |-> RatingAdjustmentScale]
    /\ main_pc' = "dispatch"
    /\ UNCHANGED <<inputs, stdout, report, game_network_groups, game_network_edge_centrality,
                   teams_in_network, network_game_id_list, att, evaluated, rng_tape,
                   rng_lag, aggregate>>

\* line 460: joblib.Parallel starts rating_attempt for every attempt index
Dispatch ==
    /\ main_pc = "dispatch"
    /\ att' = [r \in Runs |-> InitAttempt(att[r].attempt)]
    /\ main_pc' = "attempts"
    /\ UNCHANGED <<inputs, stdout, report, graph, evaluated, rng_tape, rng_lag, aggregate>>

RECURSIVE Insert(_, _)
Insert(x, s) ==
    IF s = <<>> THEN <<x>>
    ELSE IF x <= Head(s) THEN <<x>> \o s
    ELSE <<Head(s)>> \o Insert(x, Tail(s))

RECURSIVE Sort(_)
Sort(s) == IF s = <<>> THEN <<>> ELSE Insert(Head(s), Sort(Tail(s)))

\* numpy.median
Median(s) ==
    IF \E k \in 1..Len(s) : s[k] = NaN THEN NaN
    ELSE LET o == Sort(s)
             n == Len(s)
         IN IF n % 2 = 1 THEN o[(n + 1) \div 2]
            ELSE FDiv(FAdd(o[n \div 2], o[n \div 2 + 1]), 2)

\* numpy.std
Std(s) == FSqrt(FMean([k \in 1..Len(s) |-> FMul(FSub(s[k], FMean(s)), FSub(s[k], FMean(s)))]))

\* the median is taken along the other axis: over the teams of the first attempt
ColumnAlongTeams(list, t) == list[1]

\* the column is read from the last attempt to the first
ColumnReversed(list, t) == [r \in 1..Len(list) |-> list[Len(list) + 1 - r][t]]

\* a column of the stacked attempt results: team t's value in every attempt
Column(list, t) == [r \in 1..Len(list) |-> list[r][t]]

\* lines 463-476
Aggregated(attempt_results) ==
    LET best_team_off_ratings_list == [r \in 1..Len(attempt_results) |-> attempt_results[r][1]]
        best_team_def_ratings_list == [r \in 1..Len(attempt_results) |-> attempt_results[r][2]]
        best_team_ratings_list == [r \in 1..Len(attempt_results) |-> attempt_results[r][3]]
        best_home_advantage_list == [r \in 1..Len(attempt_results) |-> attempt_results[r][4]]
        teams == 1..Len(teams_in_network)
    IN [best_team_off_ratings_list |-> best_team_off_ratings_list,
        best_team_def_ratings_list |-> best_team_def_ratings_list,
        best_team_ratings_list |-> best_team_ratings_list,
        best_home_advantage_list |-> best_home_advantage_list,
        median_team_off_ratings |-> [t \in teams |-> Median(Column(best_team_off_ratings_list, t))],
        stdev_team_off_ratings |-> [t \in teams |-> Std(Column(best_team_off_ratings_list, t))],
        median_team_def_ratings |-> [t \in teams |-> Median(Column(best_team_def_ratings_list, t))],
        stdev_team_def_ratings |-> [t \in teams |-> Std(Column(best_team_def_ratings_list, t))],
        median_team_ratings |-> [t \in teams |-> Median(Column(best_team_ratings_list, t))],
        stdev_team_ratings |-> [t \in teams |-> Std(Column(best_team_ratings_list, t))],
        median_home_advantage |-> Median(best_home_advantage_list)]

\* the results are taken as soon as one call has returned
ParallelAnyDone == \E r \in Runs : att[r].pc = "returned"

\* joblib.Parallel returns the list of results once every call has returned
ParallelDone == \A r \in Runs : att[r].pc = "returned"

\* lines 460-476
Aggregate ==
    /\ main_pc = "attempts"
    /\ ParallelDone
    /\ aggregate' = Aggregated([r \in 1..Cardinality(Runs) |-> AttemptResult(att[r])])
    /\ main_pc' = "aggregated"
    /\ UNCHANGED <<inputs, stdout, report, graph, att, evaluated, rng_tape, rng_lag>>

\* line 460: joblib.Parallel raises in main what a call raised
Abort ==
    /\ main_pc = "attempts"
    /\ \E r \in Runs : att[r].pc = "raised"
    /\ main_pc' = "aborted"
    /\ UNCHANGED <<inputs, stdout, report, graph, att, evaluated, rng_tape, rng_lag, aggregate>>

-----------------------------------------------------------------------------
(* main: the distribution of the prediction errors (lines 478-526) *)

\* cur_game_season as the loops of lines 382-407 leave it: the season of the last
\* played game, no unplayed game being loaded
StaleGameSeason == input_games[Len(input_games)].season

\* include_game of lines 483-491
IncludeGame(g) ==
    /\ ~(/\ config.use_preseason_var
          /\ \/ g.is_preseason /\ config.preseason_weight = 0
             \/ /\ StaleGameSeason < config.season_to_rank
                /\ config.prior_preseason_weight = 0
                /\ g.is_preseason)
    /\ ~(StaleGameSeason < config.season_to_rank /\ config.prior_season_weight = 0)

\* cur_game_predicted_margin of lines 500 and 556, from the aggregated ratings
PredictedMargin(g) ==
    FSub(FAdd(aggregate.median_team_ratings[IdToIndex(g.home)],
              FMul(IF g.is_neutral_site THEN 0 ELSE 1, aggregate.median_home_advantage)),
         aggregate.median_team_ratings[IdToIndex(g.away)])

\* cur_game_predicted_home_score of line 502, from the aggregated ratings
PredictedHomeScore(g) ==
    FAdd(FSub(FAdd(aggregate.median_team_off_ratings[IdToIndex(g.home)],
                   HomeEdge(g, aggregate.median_home_advantage)),
              aggregate.median_team_def_ratings[IdToIndex(g.away)]),
         network_game_score_mean)

\* cur_game_predicted_away_score of line 503: the defense rating of the home
\* team is added
PredictedAwayScore(g) ==
    FAdd(FAdd(FSub(aggregate.median_team_off_ratings[IdToIndex(g.away)],
                   HomeEdge(g, aggregate.median_home_advantage)),
              aggregate.median_team_def_ratings[IdToIndex(g.home)]),
         network_game_score_mean)

\* scipy.stats.t.fit with the scale fixed (lines 513, 517, 520) is not computed: it returns
\* a degree of freedom above 50 or one below, and on no data or on a scale that
\* is not positive it may raise as well
FitOutcomes(prediction_errors, prediction_error_stdev) ==
    IF \/ prediction_errors = <<>>
       \/ prediction_error_stdev = NaN
       \/ prediction_error_stdev <= 0
    THEN {"raises", "t", "normal"}
    ELSE {"t", "normal"}

\* lines 479-531: the errors of the eligible games, their deviation, the fit,
\* and the locals of the tie-bound search before its loop
Calibrate ==
    /\ main_pc = "aggregated"
    /\ LET included == SelectSeq(network_game_id_list,
                                 LAMBDA i : IncludeGame(input_games[i]))
           prediction_errors ==
               [k \in 1..Len(included) |->
                   FSub(PredictedMargin(input_games[included[k]]),
                        Margin(input_games[included[k]]))]
           prediction_error_stdev == Std(prediction_errors)
           home_prediction_error(g) == FSub(PredictedHomeScore(g), g.home_score)
           away_prediction_error(g) == FSub(PredictedAwayScore(g), g.away_score)
           score_prediction_errors ==
               [k \in 1..(2 * Len(included)) |->
                   IF k % 2 = 1
                   THEN home_prediction_error(input_games[included[(k + 1) \div 2]])
                   ELSE away_prediction_error(input_games[included[k \div 2]])]
           total_score_prediction_errors ==
               [k \in 1..Len(included) |->
                   FSub(FAdd(PredictedHomeScore(input_games[included[k]]),
                             PredictedAwayScore(input_games[included[k]])),
                        input_games[included[k]].home_score
                            + input_games[included[k]].away_score)]
           score_fits ==
               FitOutcomes(score_prediction_errors, Std(score_prediction_errors))
               \cup FitOutcomes(total_score_prediction_errors,
                                Std(total_score_prediction_errors))
       IN \E fit \in FitOutcomes(prediction_errors, prediction_error_stdev)
                      \cup (score_fits \cap {"raises"}) :
            /\ calibration' = [included |-> included,
                               prediction_errors |-> prediction_errors,
                               prediction_error_stdev |-> prediction_error_stdev,
                               score_prediction_errors |-> score_prediction_errors,
                               total_score_prediction_errors |->
                                   total_score_prediction_errors,
                               use_normal |-> fit = "normal"]
            /\ main_pc' = IF fit = "raises" THEN "raised" ELSE "calibrated"
    /\ tie_search' = [terminate_search |-> FALSE,
                      cur_cdf_tie_probability |-> 0,
                      cur_cdf_bound |-> 0,
                      prev_cdf_tie_probability |-> None,
                      prev_cdf_bound |-> None,
                      tie_cdf_bound |-> None]
    /\ UNCHANGED <<inputs, stdout, graph, att, evaluated, rng_tape, rng_lag, aggregate,
                   output_data, output_file>>

-----------------------------------------------------------------------------
(* main: the tie bound (lines 528-564) *)

\* the candidates the model follows a search through whose probability cannot
\* reach the requested one: the deviation of the errors is 0 or nan, so every
\* candidate's probability is nan, or the requested probability is above 1.
\* Any other search is followed to its end.
MaxTieSteps == 8

\* include_game of lines 540-546
TieIncludeGame(g) ==
    /\ ~(config.use_preseason_var /\ g.is_preseason /\ config.preseason_weight = 0)
    /\ ~(StaleGameSeason < config.season_to_rank /\ config.prior_season_weight = 0)

\* the distribution function the search uses (lines 557-560), in units of
\* 1/ProbDen: the normal one, or Student's t as the same shape with tails
\* twice as wide
TieCdf(x, loc, scale) ==
    LET width == IF calibration.use_normal THEN FMul(scale, BoundDen)
                 ELSE FMul(scale, 2 * BoundDen)
    IN FDiv(FMul(NormCdf(x, FMul(loc, BoundDen), width), ProbDen), FMul(4, width))

\* lines 538-562: the mean over the eligible games of the probability that the
\* margin falls within the bound
CdfTieProbability(cur_cdf_bound) ==
    LET included == SelectSeq(network_game_id_list,
                              LAMBDA i : TieIncludeGame(input_games[i]))
        term(g) == FSub(TieCdf(cur_cdf_bound, PredictedMargin(g),
                               calibration.prediction_error_stdev),
                        TieCdf(-cur_cdf_bound, PredictedMargin(g),
                               calibration.prediction_error_stdev))
    IN FDiv(FSum([k \in 1..Len(included) |-> term(input_games[included[k]])]),
            Len(included))

\* line 562 divides the float sum by the integer count: ZeroDivisionError
TieSearchRaises ==
    \A k \in 1..Len(network_game_id_list) : ~TieIncludeGame(NetworkGame(k))

\* line 563
TieReached(probability) ==
    probability # NaN /\ probability >= config.tie_probability

\* lines 532-563: one pass of the loop
TieSearchStep ==
    /\ main_pc = "calibrated"
    /\ ~tie_search.terminate_search
    /\ \/ tie_search.cur_cdf_bound < MaxTieSteps * config.tie_cdf_search_interval
       \/ /\ ~TieSearchRaises
          /\ calibration.prediction_error_stdev # NaN
          /\ calibration.prediction_error_stdev > 0
          /\ config.tie_probability <= ProbDen
    /\ LET cur_cdf_bound == tie_search.cur_cdf_bound + config.tie_cdf_search_interval
       IN IF TieSearchRaises
          THEN /\ main_pc' = "raised"
               /\ tie_search' = [tie_search EXCEPT
                     !.prev_cdf_tie_probability = tie_search.cur_cdf_tie_probability,
                     !.prev_cdf_bound = tie_search.cur_cdf_bound,
                     !.cur_cdf_bound = cur_cdf_bound]
          ELSE /\ main_pc' = main_pc
               /\ tie_search' = [tie_search EXCEPT
                     !.prev_cdf_tie_probability = tie_search.cur_cdf_tie_probability,
                     !.prev_cdf_bound = tie_search.cur_cdf_bound,
                     !.cur_cdf_bound = cur_cdf_bound,
                     !.cur_cdf_tie_probability = CdfTieProbability(cur_cdf_bound),
                     !.terminate_search = TieReached(CdfTieProbability(cur_cdf_bound))]
    /\ UNCHANGED <<inputs, stdout, graph, att, evaluated, rng_tape, rng_lag, aggregate,
                   calibration, output_data, output_file>>

\* the stopping candidate is returned as it is
TieCdfBoundOfCurrent(t) == t.cur_cdf_bound

\* line 564: the interpolation between the previous and the stopping candidate
TieCdfBound(t) ==
    FAdd(FDiv(FMul(FSub(config.tie_probability, t.prev_cdf_tie_probability),
                   config.tie_cdf_search_interval),
              FSub(t.cur_cdf_tie_probability, t.prev_cdf_tie_probability)),
         t.prev_cdf_bound)

\* line 564, after the loop has ended
InterpolateTieBound ==
    /\ main_pc = "calibrated"
    /\ tie_search.terminate_search
    /\ tie_search' = [tie_search EXCEPT !.tie_cdf_bound = TieCdfBound(tie_search)]
    /\ main_pc' = "tie_bound"
    /\ UNCHANGED <<inputs, stdout, graph, att, evaluated, rng_tape, rng_lag, aggregate,
                   calibration, output_data, output_file>>

-----------------------------------------------------------------------------
(* main: the output (lines 566-756) *)

\* line 598: a team's place when the network's teams are sorted by their median
\* rating, highest first, teams of equal rating in the order of the network
Rank(k) ==
    1 + Cardinality({j \in 1..Len(teams_in_network) :
            \/ aggregate.median_team_ratings[j] > aggregate.median_team_ratings[k]
            \/ j < k /\ aggregate.median_team_ratings[j] = aggregate.median_team_ratings[k]})

\* lines 601-622: one entry for every team of the network, under the team's id
TeamRatings ==
    [team_id \in {teams_in_network[k] : k \in 1..Len(teams_in_network)} |->
        [Rank |-> Rank(IdToIndex(team_id)),
         Rating |-> aggregate.median_team_ratings[IdToIndex(team_id)],
         OffenseRating |-> aggregate.median_team_off_ratings[IdToIndex(team_id)],
         DefenseRating |-> aggregate.median_team_def_ratings[IdToIndex(team_id)],
         RatingList |-> Column(aggregate.best_team_ratings_list, IdToIndex(team_id)),
         OffenseRatingList |->
             Column(aggregate.best_team_off_ratings_list, IdToIndex(team_id)),
         DefenseRatingList |->
             Column(aggregate.best_team_def_ratings_list, IdToIndex(team_id))]]

\* lines 567-750
BuildOutputData ==
    /\ main_pc = "tie_bound"
    /\ output_data' = [TieCDFBound |-> tie_search.tie_cdf_bound,
                       IsPredictionErrorNormal |-> calibration.use_normal,
                       PredictionErrorStDev |-> calibration.prediction_error_stdev,
                       NumberOfGames |-> Len(network_game_id_list),
                       HomeAdvantage |-> aggregate.median_home_advantage,
                       NumberOfRatingAttempts |-> Cardinality(Runs),
                       RequestedTieProbability |-> config.tie_probability,
                       HomeAdvantageList |-> aggregate.best_home_advantage_list,
                       TeamRatings |-> TeamRatings]
    /\ main_pc' = "output"
    /\ UNCHANGED <<inputs, stdout, graph, att, evaluated, rng_tape, rng_lag, aggregate,
                   calibration, tie_search, output_file>>

\* the file is written as soon as the ratings are aggregated, before the
\* calibration
WriteOutputOnceAggregated ==
    /\ main_pc = "aggregated"
    /\ output_file = <<>>
    /\ output_file' = <<output_data>>
    /\ UNCHANGED <<inputs, stdout, graph, att, evaluated, rng_tape, rng_lag, aggregate,
                   calibration, tie_search, output_data, main_pc>>

\* lines 753-756: the output file is opened for writing and the data are dumped
WriteOutput ==
    /\ main_pc = "output"
    /\ output_file' = <<output_data>>
    /\ main_pc' = "done"
    /\ UNCHANGED <<inputs, stdout, graph, att, evaluated, rng_tape, rng_lag, aggregate,
                   calibration, tie_search, output_data>>

-----------------------------------------------------------------------------
(* Inputs *)

ScoreStep == 4
MaxReset == 2
MaxStop == 2

Game(h, a, hs, as, season, neutral, pre) ==
    [home |-> h, away |-> a, home_score |-> hs, away_score |-> as, season |-> season,
     is_neutral_site |-> neutral, is_preseason |-> pre]

Teams(games) == {games[i].home : i \in 1..Len(games)} \cup {games[i].away : i \in 1..Len(games)}

\* two teams, current season: a home win of team 0, and a drawn return game at
\* team 1; each at a neutral site or not, in the preseason or not
FirstGames ==
    {Game(0, 1, 2 * ScoreStep, ScoreStep, 1, neutral, pre) :
        neutral \in BOOLEAN, pre \in BOOLEAN}
ReturnGames ==
    {Game(1, 0, ScoreStep, ScoreStep, 1, neutral, pre) :
        neutral \in BOOLEAN, pre \in BOOLEAN}
TwoTeamGameSets ==
    {<<g>> : g \in FirstGames} \cup {<<g, h>> : g \in FirstGames, h \in ReturnGames}

Configs ==
    [season_to_rank : {1},
     preseason_weight : {0, One},
     prior_season_weight : {One},
     prior_preseason_weight : {One},
     use_preseason_var : {TRUE},
     iterations_before_reset : 1..MaxReset,
     iterations_before_stop : 1..MaxStop]

IdleRun(attempt) == [pc |-> "idle", attempt |-> attempt]

InitWith(game_sets, configs, runs) ==
    /\ input_games \in game_sets
    /\ config \in configs
    /\ all_team_list = Cardinality(Teams(input_games))
    /\ Teams(input_games) = 0..(all_team_list - 1)
    /\ main_pc = "graph"
    /\ game_network_groups = <<>>
    /\ game_network_edge_centrality = <<>>
    /\ teams_in_network = <<>>
    /\ network_game_id_list = <<>>
    /\ network_stats = None
    /\ att = runs
    /\ evaluated = [r \in DOMAIN runs |-> [seen |-> FALSE, min_error |-> None, first_min |-> None]]
    /\ rng_tape = [seed \in {runs[r].attempt : r \in DOMAIN runs} |-> <<>>]
    /\ rng_lag = [r \in DOMAIN runs |-> 0]
    /\ aggregate = None
    /\ argv = ArgvOf(config)
    /\ data_keys = {"IsPreseason"}
    /\ stdout = <<>>
    /\ calibration = [included |-> <<>>]
    /\ tie_search = None
    /\ output_data = None
    /\ output_file = <<>>

\* main with one attempt (num_rating_attempts = 1)
Init == InitWith(TwoTeamGameSets, Configs, <<IdleRun(0)>>)

Next ==
    \/ BuildGraph
    \/ NetworkStatistics
    \/ Dispatch
    \/ \E r \in Runs : Evaluate(r)
    \/ \E r \in Runs : Update(r)
    \/ \E r \in Runs : Raise(r)
    \/ \E r \in Runs : Terminate(r)
    \/ Aggregate
    \/ Abort

Spec == Init /\ [][Next]_vars

-----------------------------------------------------------------------------
(* main from the command line to the output file *)

\* two teams: a home win of team 0 in the rated or the prior season, in the
\* preseason or not, and a drawn return game at a neutral site in either season
MainFirstGames ==
    {Game(0, 1, 2 * ScoreStep, ScoreStep, season, FALSE, pre) :
        season \in {0, 1}, pre \in BOOLEAN}

\* the two games; the two with a game between two further teams; one game at a
\* neutral site
MainGameSets ==
    {<<g, Game(1, 0, ScoreStep, ScoreStep, season, TRUE, FALSE)>> :
        g \in MainFirstGames, season \in {0, 1}}
    \cup {<<Game(0, 1, 2 * ScoreStep, ScoreStep, 1, FALSE, FALSE),
            Game(1, 0, ScoreStep, ScoreStep, 1, TRUE, FALSE),
            Game(2, 3, ScoreStep, ScoreStep, 1, FALSE, FALSE)>>,
          <<Game(0, 1, 2 * ScoreStep, ScoreStep, 1, TRUE, FALSE)>>}

\* two wins of team 0 by a margin one update of the ratings can reach
FittedGames ==
    <<Game(0, 1, 3 * ScoreStep, ScoreStep, 1, FALSE, FALSE),
      Game(1, 0, ScoreStep, 3 * ScoreStep, 1, TRUE, FALSE)>>

\* weights of 0 and 1 and one above 1; a tie probability below 0, inside and
\* above [0, 1]
NumericArgvs ==
    [season_to_rank : {Arg(TRUE, 1)},
     preseason_weight : {Arg(TRUE, 0), Arg(TRUE, One)},
     prior_season_weight : {Arg(TRUE, 0), Arg(TRUE, One)},
     prior_preseason_weight : {Arg(TRUE, 0), Arg(TRUE, One + 1)},
     tie_probability : {Arg(TRUE, -(ProbDen \div 4)), Arg(TRUE, ProbDen \div 2),
                        Arg(TRUE, ProbDen + ProbDen \div 2)},
     tie_cdf_search_interval : {Arg(TRUE, TieStep)}]

\* the weights that leave no game out
FullWeights(a) ==
    /\ a.preseason_weight.value > 0
    /\ a.prior_season_weight.value > 0
    /\ a.prior_preseason_weight.value > 0

\* every weight with a tie probability inside [0, 1]; the other tie
\* probabilities with full weights; and a weight that is no number
MainArgvs ==
    {a \in NumericArgvs : a.tie_probability.value = ProbDen \div 2 \/ FullWeights(a)}
    \cup {[a EXCEPT !.preseason_weight = Arg(FALSE, 0)] :
            a \in {b \in NumericArgvs : FullWeights(b)}}

MainInputs ==
    (MainGameSets \X MainArgvs)
    \cup ({FittedGames} \X {a \in NumericArgvs : FullWeights(a)})

InitMain ==
    /\ \E input \in MainInputs : input_games = input[1] /\ argv = input[2]
    /\ data_keys \in {keys \in SUBSET {"IsPreseason"} :
            "IsPreseason" \notin keys =>
                \A i \in 1..Len(input_games) : ~input_games[i].is_preseason}
    /\ config = NoConfig
    /\ all_team_list = Cardinality(Teams(input_games))
    /\ main_pc = "start"
    /\ game_network_groups = <<>>
    /\ game_network_edge_centrality = <<>>
    /\ teams_in_network = <<>>
    /\ network_game_id_list = <<>>
    /\ network_stats = None
    /\ att = <<IdleRun(0)>>
    /\ evaluated = [r \in {1} |-> [seen |-> FALSE, min_error |-> None, first_min |-> None]]
    /\ rng_tape = [seed \in {0} |-> <<>>]
    /\ rng_lag = [r \in {1} |-> 0]
    /\ aggregate = None
    /\ stdout = <<>>
    /\ calibration = [included |-> <<>>]
    /\ tie_search = None
    /\ output_data = None
    /\ output_file = <<>>

NextMain ==
    \/ ParseArguments
    \/ LoadInput
    \/ Next
    \/ Calibrate
    \/ TieSearchStep
    \/ InterpolateTieBound
    \/ BuildOutputData
    \/ WriteOutput

SpecMain == InitMain /\ [][NextMain]_vars

\* One pass of the loop of lines 532-563 as the loop condition and the loop
\* counter show it, whatever probability the pass computes: the search has not
\* ended, and the candidate bound moves on by the search interval.  Every
\* TieSearchStep is such a pass, and no other step of main is.
TieSearchPass ==
    /\ main_pc = "calibrated"
    /\ ~tie_search.terminate_search
    /\ \/ tie_search.cur_cdf_bound < MaxTieSteps * config.tie_cdf_search_interval
       \/ /\ ~TieSearchRaises
          /\ calibration.prediction_error_stdev # NaN
          /\ calibration.prediction_error_stdev > 0
          /\ config.tie_probability <= ProbDen
    /\ main_pc' \in {"calibrated", "raised"}
    /\ tie_search' \in
          {[tie_search EXCEPT
                !.prev_cdf_tie_probability = tie_search.cur_cdf_tie_probability,
                !.prev_cdf_bound = tie_search.cur_cdf_bound,
                !.cur_cdf_bound = @ + config.tie_cdf_search_interval,
                !.cur_cdf_tie_probability = probability,
                !.terminate_search = terminate_search] :
             probability \in (0..ProbDen) \cup {NaN}, terminate_search \in BOOLEAN}

\* main is one sequential program: while the loop of the tie-bound search has
\* another pass to make, main makes it
SpecMainFair == SpecMain /\ WF_<<main_pc, tie_search>>(TieSearchPass)

-----------------------------------------------------------------------------
(* Properties of one attempt *)

\* the runs that have entered rating_attempt
Entered == {r \in Runs : att[r].pc # "idle"}

\* the state rating_attempt starts from (lines 33-47)
ZeroState == [off |-> Zeros, def |-> Zeros, overall |-> Zeros, home_advantage |-> 0]

\* C1: an attempt leaves its loop in the first iteration in which
\* iterations_since_last_update equals iterations_before_stop, and the counter
\* never exceeds iterations_before_stop: while the loop runs the counter is
\* below the threshold when an iteration starts, and a run that has left the
\* loop has its counter at the threshold.
C1_LeavesLoopAtStopThreshold ==
    \A r \in Entered :
        /\ att[r].iterations_since_last_update <= config.iterations_before_stop
        /\ att[r].pc = "evaluate" =>
              att[r].iterations_since_last_update < config.iterations_before_stop
        /\ att[r].pc \in {"returned", "raised"} =>
              att[r].iterations_since_last_update = config.iterations_before_stop

\* C2: the recorded best error is the error of the saved best state, the saved
\* best state is the earliest evaluated state whose error is the least of all
\* states evaluated, and what a terminated attempt returns is that state.
C2_ReturnsEarliestBest ==
    \A r \in Entered :
        /\ evaluated[r].seen =>
              /\ att[r].best_abs_total_error = AbsTotalError(BestState(att[r]))
              /\ att[r].best_abs_total_error = evaluated[r].min_error
              /\ BestState(att[r]) = evaluated[r].first_min
        /\ att[r].pc = "returned" =>
              AttemptResult(att[r]) =
                  <<evaluated[r].first_min.off, evaluated[r].first_min.def,
                    evaluated[r].first_min.overall, evaluated[r].first_min.home_advantage>>

\* an attempt has returned a best state found after its first iteration while
\* its final current state is another one
C2_Witness ==
    \E r \in Entered :
        /\ att[r].pc = "returned"
        /\ BestState(att[r]) # ZeroState
        /\ CurState(att[r]) # BestState(att[r])

\* the counter has just reached a positive multiple of the reset interval
ResetIteration(a) ==
    /\ a.pc = "update"
    /\ a.iterations_since_last_update > 0
    /\ ResetDue(a.iterations_since_last_update)

\* C4 as stated: after an iteration without improvement in which the counter
\* reached a positive multiple of the reset interval, the current state that
\* the next iteration evaluates equals the saved best state, element by element.
C4_NextIterationEvaluatesBest ==
    [][\A r \in Entered :
          (ResetIteration(att[r]) /\ att'[r].pc = "evaluate") =>
              CurState(att'[r]) = BestState(att'[r])]_vars

\* C4, amended: in such an iteration the current state equals the saved best
\* state, element by element, when the bookkeeping of the iteration is done,
\* that is before the iteration's update and, if the iteration is the last, in
\* the state the loop ends with.
C4_ResetRestoresBest ==
    \A r \in Entered :
        (\/ ResetIteration(att[r])
         \/ /\ att[r].pc = "returned"
            /\ ResetDue(att[r].iterations_since_last_update))
        => CurState(att[r]) = BestState(att[r])

\* a reset iteration that will update, after a best state other than the
\* initial one was saved
C4_Witness ==
    \E r \in Entered :
        /\ ResetIteration(att[r])
        /\ ContinueSearch(att[r])
        /\ BestState(att[r]) # ZeroState

\* C5: when an iteration is complete (the initial state included) the current
\* offense ratings sum to zero and the current defense ratings sum to zero, and
\* so do those of the saved best state.
C5_ZeroCentred ==
    \A r \in Entered :
        att[r].pc \in {"evaluate", "returned"} =>
            /\ FSum(att[r].cur_team_off_ratings) = 0
            /\ FSum(att[r].cur_team_def_ratings) = 0
            /\ FSum(att[r].best_team_off_ratings) = 0
            /\ FSum(att[r].best_team_def_ratings) = 0

\* C6: in every saved best state, and in the result an attempt returns, the
\* overall rating of every team is the sum of its offense and defense ratings.
C6_OverallIsOffPlusDef ==
    \A r \in Entered :
        /\ \A t \in 1..Len(teams_in_network) :
              att[r].best_team_ratings[t] =
                  FAdd(att[r].best_team_off_ratings[t], att[r].best_team_def_ratings[t])
        /\ att[r].pc = "returned" =>
              \A t \in 1..Len(teams_in_network) :
                  AttemptResult(att[r])[3][t] =
                      FAdd(AttemptResult(att[r])[1][t], AttemptResult(att[r])[2][t])

\* a saved best state with a team whose overall rating is not zero
C6_Witness ==
    \E r \in Entered :
        /\ evaluated[r].seen
        /\ \E t \in 1..Len(teams_in_network) : att[r].best_team_ratings[t] # 0

\* C7: from one iteration to the next the recorded best error does not
\* increase, and after the first iteration it changes only to the error the
\* iteration computed, and only if that error is strictly lower than the
\* previous best error.
C7_BestErrorNonIncreasing ==
    [][\A r \in Entered :
          IF att[r].pc = "evaluate" /\ ~att[r].first_iteration
          THEN \/ att'[r].best_abs_total_error = att[r].best_abs_total_error
               \/ /\ FLess(att'[r].best_abs_total_error, att[r].best_abs_total_error)
                  /\ att'[r].best_abs_total_error = AbsTotalError(CurState(att[r]))
          ELSE att[r].pc = "evaluate" \/
               att'[r].best_abs_total_error = att[r].best_abs_total_error]_vars

\* the recorded best error is lower than the error of the first iteration
C7_Witness ==
    \E r \in Entered :
        /\ evaluated[r].seen
        /\ FLess(att[r].best_abs_total_error, AbsTotalError(ZeroState))

-----------------------------------------------------------------------------
(* The game graph of main, over game sets with up to MaxTeams teams *)

MaxTeams == 5
MaxGames == 3

\* games between any two teams, all of the current season
PairGames ==
    {Game(h, a, 2 * ScoreStep, ScoreStep, 1, FALSE, FALSE) :
        h \in 0..(MaxTeams - 1), a \in 0..(MaxTeams - 1)} \
    {Game(h, h, 2 * ScoreStep, ScoreStep, 1, FALSE, FALSE) : h \in 0..(MaxTeams - 1)}

\* game lists in which the home team of a game has the lower index
GraphGameSets ==
    {games \in UNION {[1..n -> PairGames] : n \in 1..MaxGames} :
        \A i \in 1..Len(games) : games[i].home < games[i].away}

GraphConfigs == {c \in Configs : c.preseason_weight = One /\ c.iterations_before_reset = 1
                                 /\ c.iterations_before_stop = 1}

InitGraph == InitWith(GraphGameSets, GraphConfigs, <<IdleRun(0)>>)

NextGraph ==
    \/ BuildGraph
    \/ NetworkStatistics

SpecGraph == InitGraph /\ [][NextGraph]_vars

\* C3: the primary network is a connected component of the team graph, and no
\* connected component has more teams than it.
C3_PrimaryNetworkIsLargest ==
    main_pc # "graph" =>
        /\ \E k \in 1..Len(game_network_groups) :
              game_network_groups[k] =
                  {teams_in_network[t] : t \in 1..Len(teams_in_network)}
        /\ \A k \in 1..Len(game_network_groups) :
              Cardinality(game_network_groups[k]) <= Len(teams_in_network)

-----------------------------------------------------------------------------
(* The batch of attempts: main with two attempts, run in any interleaving *)

\* game sets without preseason games, the return game at a neutral site
BatchGameSets ==
    {games \in TwoTeamGameSets :
        \A i \in 1..Len(games) :
            /\ ~games[i].is_preseason
            /\ i > 1 => games[i].is_neutral_site}

BatchConfigs ==
    {c \in Configs : c.preseason_weight = One /\ c.iterations_before_reset = 1
                     /\ c.iterations_before_stop = 1}

\* num_rating_attempts = 2: attempt indexes 0 and 1 (line 460)
InitParallel == InitWith(BatchGameSets, BatchConfigs, <<IdleRun(0), IdleRun(1)>>)

SpecParallel == InitParallel /\ [][Next]_vars

\* two calls of rating_attempt with the same arguments, attempt index included
InitDet == InitWith(BatchGameSets, BatchConfigs, <<IdleRun(0), IdleRun(0)>>)

SpecDet == InitDet /\ [][Next]_vars

\* C8: two runs with the same arguments and the same attempt index are in the
\* same state whenever they are at the same point of the loop after the same
\* number of reads of the generator, so they record the same best errors, have
\* evaluated the same states, and return the same result.
C8_SameSeedSameRun ==
    \A r \in Entered : \A q \in Entered :
        (/\ att[r].attempt = att[q].attempt
         /\ att[r].pc = att[q].pc
         /\ rng_lag[r] = 0
         /\ rng_lag[q] = 0)
        => /\ att[r] = att[q]
           /\ evaluated[r] = evaluated[q]
           /\ AttemptResult(att[r]) = AttemptResult(att[q])

\* two runs with the same attempt index have both returned a best state found
\* after the first iteration
C8_Witness ==
    \E r \in Entered : \E q \in Entered :
        /\ r # q
        /\ att[r].attempt = att[q].attempt
        /\ att[r].pc = "returned"
        /\ att[q].pc = "returned"
        /\ BestState(att[r]) # ZeroState

\* C9: while the attempts run, no step changes what main passes to them (the
\* games, the command line, the graph, the centralities, the statistics); a
\* step of an attempt changes the locals of that attempt only, and leads to
\* a state that rating_attempt run alone reaches from the same locals.
C9_AttemptsIsolated ==
    [][/\ main_pc = "attempts" => UNCHANGED <<inputs, graph>>
       /\ \A r \in Entered :
             att'[r] # att[r] =>
                /\ att'[r] \in StepsAlone(att[r])
                /\ \A q \in Runs \ {r} : att'[q] = att[q]]_vars

\* two attempts are under way, each past its first iteration, in different
\* states
C9_Witness ==
    \E r \in Entered : \E q \in Entered :
        /\ att[r].attempt # att[q].attempt
        /\ Running(r) /\ ~att[r].first_iteration
        /\ Running(q) /\ ~att[q].first_iteration
        /\ CurState(att[r]) # CurState(att[q])
        /\ BestState(att[r]) # BestState(att[q])

\* C10: when main has aggregated, every attempt had returned, and the lists
\* aggregated are the results of all attempts.
C10_AggregatesAfterAllReturned ==
    main_pc = "aggregated" =>
        /\ \A r \in Runs : att[r].pc = "returned"
        /\ Len(aggregate.best_home_advantage_list) = Cardinality(Runs)
        /\ \A r \in Runs :
              /\ aggregate.best_team_off_ratings_list[r] = AttemptResult(att[r])[1]
              /\ aggregate.best_team_def_ratings_list[r] = AttemptResult(att[r])[2]
              /\ aggregate.best_team_ratings_list[r] = AttemptResult(att[r])[3]
              /\ aggregate.best_home_advantage_list[r] = AttemptResult(att[r])[4]

\* main has aggregated the results of two attempts that returned different
\* results
C10_Witness ==
    /\ main_pc = "aggregated"
    /\ \E r \in Runs : \E q \in Runs : AttemptResult(att[r]) # AttemptResult(att[q])

-----------------------------------------------------------------------------
(* Aggregation *)

\* C11: with one attempt the aggregated offense, defense and overall rating of
\* every team and the aggregated home advantage are the values the attempt
\* returned.
C11_SingleAttemptAggregate ==
    (main_pc = "aggregated" /\ Cardinality(Runs) = 1) =>
        /\ aggregate.median_team_off_ratings = AttemptResult(att[1])[1]
        /\ aggregate.median_team_def_ratings = AttemptResult(att[1])[2]
        /\ aggregate.median_team_ratings = AttemptResult(att[1])[3]
        /\ aggregate.median_home_advantage = AttemptResult(att[1])[4]

\* one attempt has been aggregated whose best state has a non-zero rating and
\* a non-zero home advantage
C11_Witness ==
    /\ main_pc = "aggregated"
    /\ Cardinality(Runs) = 1
    /\ aggregate.median_home_advantage # 0
    /\ \E t \in 1..Len(teams_in_network) : aggregate.median_team_off_ratings[t] # 0

\* C17: when a team's total game weight is zero, the update leaves that team
\* out instead of dividing by the weight, and no rating of any team, current or
\* saved, is NaN.
C17_ZeroWeightTeamLeftOut ==
    \A r \in Entered :
        (/\ evaluated[r].seen
         /\ \E t \in 1..Len(teams_in_network) : att[r].total_team_weight[t] = 0)
        => \A t \in 1..Len(teams_in_network) :
              /\ att[r].cur_team_off_ratings[t] # NaN
              /\ att[r].cur_team_def_ratings[t] # NaN
              /\ att[r].cur_team_ratings[t] # NaN
              /\ att[r].best_team_off_ratings[t] # NaN
              /\ att[r].best_team_def_ratings[t] # NaN
              /\ att[r].best_team_ratings[t] # NaN

\* a returned result whose values are all finite and whose rating lists have
\* one entry per team of the network
ValidResult(result) ==
    /\ \A i \in 1..3 :
          /\ Len(result[i]) = Len(teams_in_network)
          /\ \A t \in 1..Len(result[i]) : IsFinite(result[i][t])
    /\ IsFinite(result[4])

-----------------------------------------------------------------------------
(* Properties of main *)

\* main has built the graph of the games
GraphBuilt == main_pc \notin {"start", "exited", "load", "load_raised", "graph"}

\* main has built the output data
OutputBuilt == main_pc \in {"output", "done"}

\* C12: once the graph is built, a team outside the primary network has no
\* index among the network's teams and is named by a line of the report of
\* unconnected teams, and it has no entry in the TeamRatings of the output;
\* every team of the primary network has an entry there, with its ratings.
C12_OutsideTeamsReportedNeverRated ==
    GraphBuilt =>
        \A team \in 0..(all_team_list - 1) :
            IF team \in game_network_groups[1]
            THEN OutputBuilt =>
                    /\ team \in DOMAIN output_data.TeamRatings
                    /\ output_data.TeamRatings[team].Rating
                          = aggregate.median_team_ratings[IdToIndex(team)]
            ELSE /\ \A k \in 1..Len(teams_in_network) : teams_in_network[k] # team
                 /\ \E k \in 1..Len(stdout) :
                       stdout[k].text = "team" /\ stdout[k].team = team
                 /\ OutputBuilt => team \notin DOMAIN output_data.TeamRatings

\* the output is written for an input with two teams outside the primary network
C12_Witness ==
    /\ main_pc = "done"
    /\ all_team_list = 4
    /\ DOMAIN output_file[1].TeamRatings = {0, 1}

\* C13: with preseason tracking enabled the policy weight of a game is 1 for a
\* game of the rated season outside the preseason, preseason_weight for a
\* preseason game of the rated season, prior_season_weight for a game of an
\* earlier season outside the preseason, prior_preseason_weight for a preseason
\* game of an earlier season, and 0 for a game of a later season: for the games
\* of three seasons, and in the weights an attempt has stored for the games of
\* the network, each the policy weight over the logarithm of the inverse
\* centrality.
C13_PolicyWeightBySeasonAndPreseason ==
    LET claimed(g) ==
            CASE g.season = config.season_to_rank /\ ~g.is_preseason -> One
              [] g.season = config.season_to_rank /\ g.is_preseason -> config.preseason_weight
              [] g.season < config.season_to_rank /\ ~g.is_preseason -> config.prior_season_weight
              [] g.season < config.season_to_rank /\ g.is_preseason -> config.prior_preseason_weight
              [] g.season > config.season_to_rank -> 0
    IN GraphBuilt =>
        /\ \A season \in 0..2 : \A pre \in BOOLEAN :
              PolicyWeight(Game(0, 1, ScoreStep, ScoreStep, season, FALSE, pre))
                  = claimed(Game(0, 1, ScoreStep, ScoreStep, season, FALSE, pre))
        /\ \A r \in Runs : evaluated[r].seen =>
              \A k \in 1..Len(network_game_id_list) :
                  LET c == game_network_edge_centrality[network_game_id_list[k]]
                  IN att[r].gt_game_weight_list[k]
                        = FDiv(claimed(NetworkGame(k)) * (c[2] + c[1]), 2 * (c[2] - c[1]))

\* an attempt has stored the weights of a preseason game of the prior season
\* and of a game of the rated season, the first 0 and the second not
C13_Witness ==
    /\ main_pc = "attempts"
    /\ evaluated[1].seen
    /\ Len(network_game_id_list) = 2
    /\ NetworkGame(1).season < config.season_to_rank
    /\ NetworkGame(1).is_preseason
    /\ NetworkGame(2).season = config.season_to_rank
    /\ config.preseason_weight = One
    /\ config.prior_season_weight = One
    /\ att[1].gt_game_weight_list[1] = 0
    /\ att[1].gt_game_weight_list[2] > 0

\* C14: after the calibration the games whose prediction errors were sampled
\* are the games of the network whose own policy weight is not zero.
C14_CalibratesGamesOfNonZeroWeight ==
    main_pc \in {"calibrated", "tie_bound", "output", "done"} =>
        \A k \in 1..Len(network_game_id_list) :
            (\E j \in 1..Len(calibration.included) :
                calibration.included[j] = network_game_id_list[k])
            <=> PolicyWeight(NetworkGame(k)) # 0

\* C15: the candidates of the tie-bound search are the multiples of the search
\* interval in increasing order, the previous pair being the candidate before
\* the current one; no candidate before the current one had an aggregate tie
\* probability of at least the requested one; the search has stopped exactly
\* when the current candidate has; and the tie bound is the bound at which the
\* line through the previous and the stopping (bound, probability) pair takes
\* the requested probability, rounded down to the unit of the bounds.
C15_FirstCandidateReachingThenInterpolation ==
    main_pc \in {"calibrated", "tie_bound", "output", "done"} =>
        LET interval == config.tie_cdf_search_interval
            requested == config.tie_probability
            n == tie_search.cur_cdf_bound \div interval
            reaches(probability) == probability # NaN /\ probability >= requested
            rise == tie_search.cur_cdf_tie_probability - tie_search.prev_cdf_tie_probability
        IN /\ n >= 0
           /\ tie_search.cur_cdf_bound = n * interval
           /\ n = 0 => ~tie_search.terminate_search
           /\ n >= 1 =>
                /\ tie_search.prev_cdf_bound = (n - 1) * interval
                /\ tie_search.cur_cdf_tie_probability
                      = CdfTieProbability(tie_search.cur_cdf_bound)
                /\ tie_search.prev_cdf_tie_probability
                      = IF n = 1 THEN 0 ELSE CdfTieProbability(tie_search.prev_cdf_bound)
                /\ \A j \in 1..(n - 1) : ~reaches(CdfTieProbability(j * interval))
                /\ tie_search.terminate_search
                      <=> reaches(tie_search.cur_cdf_tie_probability)
           /\ main_pc # "calibrated" =>
                /\ tie_search.terminate_search
                /\ (tie_search.prev_cdf_tie_probability # NaN /\ rise > 0) =>
                      LET over == (requested - tie_search.prev_cdf_tie_probability) * interval
                                  - (tie_search.tie_cdf_bound - tie_search.prev_cdf_bound) * rise
                      IN 0 <= over /\ over < rise

\* a search with a tie probability inside [0, 1] has stopped at its second
\* candidate or later, for games of different predicted margins, and the tie
\* bound lies strictly between the previous and the stopping candidate
C15_Witness ==
    /\ main_pc = "tie_bound"
    /\ config.tie_probability = ProbDen \div 2
    /\ tie_search.prev_cdf_bound >= config.tie_cdf_search_interval
    /\ tie_search.tie_cdf_bound > tie_search.prev_cdf_bound
    /\ tie_search.tie_cdf_bound < tie_search.cur_cdf_bound
    /\ aggregate.median_team_ratings[1] # 0

\* C16: the tie bound the interpolation returns is not below 0, whatever tie
\* probability and search interval the arguments gave.
C16_TieBoundNotNegative ==
    main_pc \in {"tie_bound", "output", "done"} => ~FLess(tie_search.tie_cdf_bound, 0)

\* C19: when a weight argument is no number, or the tie probability argument
\* is below 0 or above 1, no rating attempt is ever started.
C19_InvalidConfigurationIsFatal ==
    (\/ ~argv.preseason_weight.numeric
     \/ ~argv.prior_season_weight.numeric
     \/ ~argv.prior_preseason_weight.numeric
     \/ argv.tie_probability.value < 0
     \/ argv.tie_probability.value > ProbDen)
    => \A r \in Runs : att[r].pc = "idle"

\* C20: nothing is written to the output file before main has reached its end:
\* a run that has exited on its arguments, that an attempt's exception has
\* aborted or that has raised in the calibration has written nothing, and once
\* the file is written every attempt has returned, the ratings are aggregated,
\* the prediction errors are calibrated, the tie-bound search has ended, and
\* the file holds the one document main has built.
C20_OutputOnlyAfterEverything ==
    /\ main_pc # "done" => output_file = <<>>
    /\ output_file # <<>> =>
          /\ ParallelDone
          /\ aggregate.median_team_ratings = AttemptResult(att[1])[3]
          /\ Len(calibration.prediction_errors) = Len(calibration.included)
          /\ tie_search.terminate_search
          /\ tie_search.tie_cdf_bound = TieCdfBound(tie_search)
          /\ output_file = <<output_data>>
          /\ output_file[1].TieCDFBound = tie_search.tie_cdf_bound

\* the output file has been written
C20_Witness ==
    /\ main_pc = "done"
    /\ Len(output_file) = 1
    /\ output_file[1].NumberOfGames = 2

----------------------------------------------------------------------------
(* Properties of the attempts on degenerate inputs and of the update step *)

\* C24: when no game of the primary network is played at a non-neutral site
\* (the total non-neutral weight is zero), every attempt still completes: no
\* attempt leaves rating_attempt by an exception and the batch is not aborted.
C24_NoNonNeutralGameStillReturns ==
    \A r \in Entered :
        NotNeutralGames = {} => att[r].pc # "raised" /\ main_pc # "aborted"

\* C22: with exactly two teams and a single game that team 0 wins 2:1 in
\* points on its own field (the rated season, not a preseason game), the
\* result of the one attempt rates team 0 strictly above team 1 overall.
C22_SingleHomeWinRatesWinnerHigher ==
    \A r \in Entered :
        (/\ Len(input_games) = 1
         /\ ~input_games[1].is_neutral_site
         /\ ~input_games[1].is_preseason
         /\ att[r].pc = "returned")
        => AttemptResult(att[r])[3][IdToIndex(0)] > AttemptResult(att[r])[3][IdToIndex(1)]

\* C25: in every iteration and for every game, both scores predicted from the
\* current ratings are numbers that are at least 0, and for a game at a neutral
\* site the predicted scores and the predicted margin are those predicted with
\* any other home advantage (here: with home advantage 0).
C25_PredictedScoresFlooredNeutralWithoutHomeAdvantage ==
    \A r \in Entered :
        att[r].pc = "evaluate" =>
            LET a == att[r]
                p == Predictions(a.cur_team_off_ratings, a.cur_team_def_ratings,
                                 a.cur_home_advantage)
                q == Predictions(a.cur_team_off_ratings, a.cur_team_def_ratings, 0)
            IN \A k \in 1..Len(network_game_id_list) :
                  /\ p[k].off_score # NaN /\ p[k].off_score >= 0
                  /\ p[k].def_score # NaN /\ p[k].def_score >= 0
                  /\ NetworkGame(k).is_neutral_site => p[k] = q[k]

\* C26: in every iteration that performs an update, the per-team residuals
\* and the home-advantage residual that set the means of the draws are the ones
\* accumulated from the rating state the draws are added to, also when the
\* current state was reset to the best state before the update.
C26_UpdateResidualsOfUpdatedState ==
    \A r \in Entered :
        (att[r].pc = "update" /\ ContinueSearch(att[r])) =>
            LET a == att[r]
                p == Predictions(a.cur_team_off_ratings, a.cur_team_def_ratings,
                                 a.cur_home_advantage)
            IN /\ a.total_team_off_margin_error_weight =
                      TotalTeamOffMarginErrorWeight(a.gt_game_weight_list, p)
               /\ a.total_team_def_margin_error_weight =
                      TotalTeamDefMarginErrorWeight(a.gt_game_weight_list, p)
               /\ a.total_home_margin_error_weight =
                      TotalHomeMarginErrorWeight(a.gt_game_weight_list, p)

\* C28: the saved best state (offense, defense and overall ratings, home
\* advantage) changes only in a step in which the improvement rule fires: the
\* step is an evaluation of the first iteration or of a state whose error is
\* below the saved best error.  An update, also the one right after a reset
\* has copied best into current, leaves the saved best state as it is.
C28_BestChangesOnlyOnImprovement ==
    [][\A r \in Entered :
          /\ BestState(att'[r]) # BestState(att[r]) =>
                /\ att[r].pc = "evaluate"
                /\ UpdateBestStats(att[r], AbsTotalError(CurState(att[r])))
          /\ att[r].pc = "update" => BestState(att'[r]) = BestState(att[r])]_vars

\* an update has perturbed the current state right after a reset had copied a
\* best state, found after the first iteration, into it
C28_Witness ==
    \E r \in Entered :
        /\ att[r].pc = "evaluate"
        /\ att[r].iterations_since_last_update > 0
        /\ ResetDue(att[r].iterations_since_last_update)
        /\ BestState(att[r]) # ZeroState
        /\ CurState(att[r]) # BestState(att[r])

-----------------------------------------------------------------------------
(* main with two attempts, from the command line to the output file *)

\* num_rating_attempts = 2 (lines 209, 460): attempt indexes 0 and 1; a home
\* win with a drawn return game, and one game at a neutral site
InitMainBatch ==
    /\ input_games \in {<<Game(0, 1, 2 * ScoreStep, ScoreStep, 1, FALSE, FALSE),
                          Game(1, 0, ScoreStep, ScoreStep, 1, TRUE, FALSE)>>,
                        <<Game(0, 1, 2 * ScoreStep, ScoreStep, 1, TRUE, FALSE)>>}
    /\ \E a \in NumericArgvs :
          /\ FullWeights(a)
          /\ a.prior_preseason_weight.value = One + 1
          /\ a.tie_probability.value = ProbDen \div 2
          /\ argv = a
    /\ data_keys = {"IsPreseason"}
    /\ config = NoConfig
    /\ all_team_list = Cardinality(Teams(input_games))
    /\ main_pc = "start"
    /\ game_network_groups = <<>>
    /\ game_network_edge_centrality = <<>>
    /\ teams_in_network = <<>>
    /\ network_game_id_list = <<>>
    /\ network_stats = None
    /\ att = <<IdleRun(0), IdleRun(1)>>
    /\ evaluated = [r \in {1, 2} |-> [seen |-> FALSE, min_error |-> None, first_min |-> None]]
    /\ rng_tape = [seed \in {0, 1} |-> <<>>]
    /\ rng_lag = [r \in {1, 2} |-> 0]
    /\ aggregate = None
    /\ stdout = <<>>
    /\ calibration = [included |-> <<>>]
    /\ tie_search = None
    /\ output_data = None
    /\ output_file = <<>>

SpecMainBatch == InitMainBatch /\ [][NextMain]_vars

-----------------------------------------------------------------------------
(* Properties of the calibration, the tie-bound search and the output *)

\* C29: the tie-bound search averages over exactly the games whose residuals
\* were used to fit the margin error distribution: once the search has tried a
\* candidate bound, every game of the primary network is eligible in the
\* tie-bound loop if and only if it was eligible in the residual loop.
C29_TieSearchOverCalibratedGames ==
    (main_pc \in {"calibrated", "tie_bound", "output", "done"}
        /\ tie_search.cur_cdf_bound > 0)
    => \A k \in 1..Len(network_game_id_list) :
          TieIncludeGame(NetworkGame(k)) <=> network_game_id_list[k] \in
              {calibration.included[i] : i \in 1..Len(calibration.included)}

\* C27: in the calibration with one attempt, for every eligible game the
\* predicted home score minus the predicted away score equals the predicted
\* margin (overall rating of the home team, plus the home advantage unless the
\* site is neutral, minus the overall rating of the away team) from the same
\* aggregated ratings.  The predicted values are read back from the errors
\* the calibration has stored.
C27_PredictedScoresDifferByPredictedMargin ==
    main_pc \in {"calibrated", "tie_bound", "output", "done"} =>
        \A k \in 1..Len(calibration.included) :
            LET g == input_games[calibration.included[k]]
                predicted_home_score ==
                    FAdd(calibration.score_prediction_errors[2 * k - 1], g.home_score)
                predicted_away_score ==
                    FAdd(calibration.score_prediction_errors[2 * k], g.away_score)
                predicted_margin == FAdd(calibration.prediction_errors[k], Margin(g))
            IN /\ predicted_margin = PredictedMargin(g)
               /\ FSub(predicted_home_score, predicted_away_score) = predicted_margin

\* C21: an input in which no record carries the key IsPreseason is accepted:
\* once main is past loading it, main has not raised, preseason tracking is
\* off, every game counts as a game outside the preseason, and the run goes on
\* to the graph and the attempts.
C21_MissingPreseasonFlagAccepted ==
    ("IsPreseason" \notin data_keys /\ main_pc \notin {"start", "exited", "load"})
    => /\ main_pc # "load_raised"
       /\ ~config.use_preseason_var
       /\ \A i \in 1..Len(input_games) : ~input_games[i].is_preseason

\* C23: the output keeps every attempt's values in attempt order: with K
\* attempts, HomeAdvantageList and the RatingList, OffenseRatingList and
\* DefenseRatingList of every rated team have exactly K entries, and the entry
\* at position j (counted from 0) of each list is the value returned by the
\* attempt that was seeded with index j.
C23_OutputKeepsAttemptOrder ==
    OutputBuilt =>
        /\ Len(output_data.HomeAdvantageList) = Cardinality(Runs)
        /\ \A team_id \in DOMAIN output_data.TeamRatings :
              /\ Len(output_data.TeamRatings[team_id].RatingList) = Cardinality(Runs)
              /\ Len(output_data.TeamRatings[team_id].OffenseRatingList) = Cardinality(Runs)
              /\ Len(output_data.TeamRatings[team_id].DefenseRatingList) = Cardinality(Runs)
        /\ \A r \in Runs :
              /\ att[r].attempt = r - 1
              /\ output_data.HomeAdvantageList[r] = AttemptResult(att[r])[4]
              /\ \A team_id \in DOMAIN output_data.TeamRatings :
                    /\ output_data.TeamRatings[team_id].OffenseRatingList[r] =
                           AttemptResult(att[r])[1][IdToIndex(team_id)]
                    /\ output_data.TeamRatings[team_id].DefenseRatingList[r] =
                           AttemptResult(att[r])[2][IdToIndex(team_id)]
                    /\ output_data.TeamRatings[team_id].RatingList[r] =
                           AttemptResult(att[r])[3][IdToIndex(team_id)]

\* the output of two attempts that returned different ratings and different
\* home advantages is built
C23_Witness ==
    /\ OutputBuilt
    /\ Cardinality(Runs) = 2
    /\ output_data.HomeAdvantageList[1] # output_data.HomeAdvantageList[2]
    /\ \E team_id \in DOMAIN output_data.TeamRatings :
          /\ output_data.TeamRatings[team_id].OffenseRatingList[1] #
                 output_data.TeamRatings[team_id].OffenseRatingList[2]
          /\ output_data.TeamRatings[team_id].DefenseRatingList[1] #
                 output_data.TeamRatings[team_id].DefenseRatingList[2]

====
